---------------------------- MODULE Spec2Model ----------------------------
(***************************************************************************)
(* Model of the nexus deploy-token-and-swap scripts.                       *)
(*                                                                         *)
(*   src/bot.ts     TestERC20 and SimpleSwap (Solidity, in-memory source)  *)
(*                  and main(): deploy two tokens and a pool, add          *)
(*                  liquidity, run ten swaps.                              *)
(*   src/deploy.ts  MyToken and MyNFT and deploy(): deploy a token and an  *)
(*                  NFT, mint twice, send tokens to the burn address.      *)
(*                                                                         *)
(* Specifications:                                                         *)
(*   SpecSwap   the deployed TestERC20 pair and SimpleSwap pool under      *)
(*              arbitrary calls by two externally owned accounts           *)
(*   SpecToken  one TestERC20 under approve / transfer / transferFrom      *)
(*   SpecQuote  SimpleSwap.getAmountOut on pools of enumerated reserves    *)
(*   SpecNFT    MyNFT under safeMint / ownerOf / totalSupply                *)
(*   SpecRun    one run of main() or of deploy() against a ledger and a    *)
(*              compiler that may fail                                     *)
(*   SpecRunLive  SpecRun with the script and the ledger making progress   *)
(***************************************************************************)
EXTENDS Integers, Sequences, FiniteSets, TLC

\* ------------------------------------------------------------------------
\* Bounds of the model
\* ------------------------------------------------------------------------

\* Stand-in for type(uint256).max: Solidity ^0.8 arithmetic is checked and
\* reverts (Panic 0x11) when a result exceeds it.  TLC's integers are 32 bit,
\* so the width is scaled down; every product is tested before it is formed.
MaxUint == 1073741823

\* Stand-in for 10 ** decimals (decimals = 18 in the source), scaled down for
\* the same reason.  parseUnits(x, 18) is x * Unit.
Unit == 100

\* Largest amount an account passes to a call in SpecSwap.
MaxAmount == 2

\* Number of contract calls in one behaviour of SpecSwap.
MaxOps == 4

\* _initialSupply given to each TestERC20 constructor in SpecSwap.
SwapSupply == 1

\* ------------------------------------------------------------------------
\* Program constants
\* ------------------------------------------------------------------------

FeeNumerator == 997
FeeDenominator == 1000

\* Addresses.  Zero is address(0); Dead is the burn address of deploy.ts.
Wallet == "wallet"
Other == "other"
Pool == "pool"
Zero == "zero"
Dead == "dead"
None == "none"

TA == "TA"
TB == "TB"
MT == "MT"

Tokens == {TA, TB, MT}
Accounts == {Wallet, Other, Pool, Dead, Zero}

VARIABLES
  totalSupply,   \* [Tokens -> Nat]                       uint256 totalSupply
  balanceOf,     \* [Tokens -> [Accounts -> Nat]]         mapping balanceOf
  allowance,     \* [Tokens -> [Accounts -> [Accounts -> Nat]]]  owner, spender
  reserveA,      \* SimpleSwap.reserveA
  reserveB,      \* SimpleSwap.reserveB
  tokenA,        \* SimpleSwap.tokenA (immutable), None before deployment
  tokenB,        \* SimpleSwap.tokenB
  nextTokenId,   \* MyNFT.nextTokenId, 0 before deployment
  owners,        \* MyNFT._owners, the ids written so far
  approved,      \* history: amount of the latest approve(owner, spender)
  moved,         \* history: total moved by transferFrom since that approve
  last,          \* the latest contract call and its outcome
  nops,          \* number of contract calls made (SpecSwap, SpecToken, SpecQuote)
  prog,          \* the script that runs: "bot" (main) or "deploy" (deploy)
  hasKey,        \* process.env.PRIVATE_KEY is set
  hasRpc,        \* process.env.RPC_URL is set (read by deploy.ts only)
  faults,        \* the compiler and the ledger may fail in this run
  pc,            \* "run": at step ip; "wait": awaiting a confirmation; "done"
  ip,            \* index of the current step of the script
  exitCode,      \* the process exit status
  txs,           \* transactions submitted, in order, with their status
  addr,          \* addresses the script has read from its deployments
  netCalls,      \* requests sent to the RPC endpoint
  diags,         \* compiler runs and the diagnostics each returned
  failedAt,      \* history: the step that threw, 0 if none
  balanceBefore, \* main(): tokenB balance read before the swap is sent
  balanceAfter,  \* main(): tokenB balance read after the swap's confirmation
  pre            \* history: the ledger before the latest transaction ran

chainVars == <<totalSupply, balanceOf, allowance, reserveA, reserveB,
               tokenA, tokenB, nextTokenId, owners, approved, moved>>
callVars == <<last, nops>>
runVars == <<prog, hasKey, hasRpc, faults, pc, ip, exitCode, txs, addr,
             netCalls, diags, failedAt, balanceBefore, balanceAfter, pre>>
vars == <<chainVars, callVars, runVars>>

\* ------------------------------------------------------------------------
\* Ledger state as one record, and the outcome of a call
\* ------------------------------------------------------------------------

St ==
  [totalSupply |-> totalSupply, balanceOf |-> balanceOf,
   allowance |-> allowance, reserveA |-> reserveA, reserveB |-> reserveB,
   tokenA |-> tokenA, tokenB |-> tokenB,
   nextTokenId |-> nextTokenId, owners |-> owners,
   approved |-> approved, moved |-> moved]

Commit(s) ==
  /\ totalSupply' = s.totalSupply
  /\ balanceOf' = s.balanceOf
  /\ allowance' = s.allowance
  /\ reserveA' = s.reserveA
  /\ reserveB' = s.reserveB
  /\ tokenA' = s.tokenA
  /\ tokenB' = s.tokenB
  /\ nextTokenId' = s.nextTokenId
  /\ owners' = s.owners
  /\ approved' = s.approved
  /\ moved' = s.moved

\* The ledger variables hold s (used by the initial predicates).
Holds(s) ==
  /\ totalSupply = s.totalSupply
  /\ balanceOf = s.balanceOf
  /\ allowance = s.allowance
  /\ reserveA = s.reserveA
  /\ reserveB = s.reserveB
  /\ tokenA = s.tokenA
  /\ tokenB = s.tokenB
  /\ nextTokenId = s.nextTokenId
  /\ owners = s.owners
  /\ approved = s.approved
  /\ moved = s.moved

\* A reverted call leaves the ledger as it was before the call.
Revert(s, why) == [ok |-> FALSE, err |-> why, st |-> s, ret |-> 0]
Return(s, v) == [ok |-> TRUE, err |-> "", st |-> s, ret |-> v]

\* Checked uint256 arithmetic.
MulFits(x, y) == y = 0 \/ x <= MaxUint \div y
AddFits(x, y) == x <= MaxUint - y
Panic == "Panic(0x11)"

\* ------------------------------------------------------------------------
\* TestERC20  (src/bot.ts 20-77)
\* ------------------------------------------------------------------------

_mint(s, t, to, amount) ==
  IF to = Zero THEN Revert(s, "ERC20: mint to the zero address")
  ELSE IF ~AddFits(s.totalSupply[t], amount) THEN Revert(s, Panic)
  ELSE Return([s EXCEPT !.totalSupply[t] = @ + amount,
                        !.balanceOf[t][to] = @ + amount], 0)

\* constructor(_name, _symbol, _initialSupply), msg.sender the deployer
TestERC20(s, t, msgSender, _initialSupply) ==
  IF ~MulFits(_initialSupply, Unit) THEN Revert(s, Panic)
  ELSE _mint(s, t, msgSender, _initialSupply * Unit)

approve(s, t, msgSender, spender, amount) ==
  Return([s EXCEPT !.allowance[t][msgSender][spender] = amount,
                   !.approved[t][msgSender][spender] = amount,
                   !.moved[t][msgSender][spender] = 0], 1)

\* Mutant of _transfer: the recipient is credited from the balance read
\* before the sender was debited.
_transfer_StaleRecipientBalance(s, t, sender, recipient, amount) ==
  IF sender = Zero THEN Revert(s, "ERC20: transfer from zero address")
  ELSE IF recipient = Zero THEN Revert(s, "ERC20: transfer to zero address")
  ELSE
    LET senderBalance == s.balanceOf[t][sender]
        recipientBalance == s.balanceOf[t][recipient]
    IN
    IF ~(senderBalance >= amount)
    THEN Revert(s, "ERC20: transfer amount exceeds balance")
    ELSE
      LET s1 == [s EXCEPT !.balanceOf[t][sender] = senderBalance - amount]
          s2 == [s1 EXCEPT !.balanceOf[t][recipient] = recipientBalance + amount]
      IN Return(s2, 1)

_transfer(s, t, sender, recipient, amount) ==
  IF sender = Zero THEN Revert(s, "ERC20: transfer from zero address")
  ELSE IF recipient = Zero THEN Revert(s, "ERC20: transfer to zero address")
  ELSE
    LET senderBalance == s.balanceOf[t][sender] IN
    IF ~(senderBalance >= amount)
    THEN Revert(s, "ERC20: transfer amount exceeds balance")
    ELSE
      LET s1 == [s EXCEPT !.balanceOf[t][sender] = senderBalance - amount]
          s2 == [s1 EXCEPT !.balanceOf[t][recipient] = @ + amount]
      IN Return(s2, 1)

\* Mutant of transferFrom: the allowance is checked but not consumed.
transferFrom_AllowanceKept(s, t, msgSender, sender, recipient, amount) ==
  LET currentAllowance == s.allowance[t][sender][msgSender] IN
  IF ~(currentAllowance >= amount)
  THEN Revert(s, "ERC20: transfer amount exceeds allowance")
  ELSE
    LET r == _transfer(s, t, sender, recipient, amount) IN
    IF ~r.ok THEN Revert(s, r.err)
    ELSE Return([r.st EXCEPT !.moved[t][sender][msgSender] = @ + amount], 1)

transferFrom(s, t, msgSender, sender, recipient, amount) ==
  LET currentAllowance == s.allowance[t][sender][msgSender] IN
  IF ~(currentAllowance >= amount)
  THEN Revert(s, "ERC20: transfer amount exceeds allowance")
  ELSE
    LET r == _transfer(s, t, sender, recipient, amount) IN
    IF ~r.ok THEN Revert(s, r.err)
    ELSE Return([r.st EXCEPT
                   !.allowance[t][sender][msgSender] = currentAllowance - amount,
                   !.moved[t][sender][msgSender] = @ + amount], 1)

transfer(s, t, msgSender, recipient, amount) ==
  LET r == _transfer(s, t, msgSender, recipient, amount) IN
  IF ~r.ok THEN Revert(s, r.err) ELSE Return(r.st, 1)

\* ------------------------------------------------------------------------
\* SimpleSwap  (src/bot.ts 88-124)
\* ------------------------------------------------------------------------

\* constructor(_tokenA, _tokenB)
SimpleSwap(s, _tokenA, _tokenB) ==
  Return([s EXCEPT !.tokenA = _tokenA, !.tokenB = _tokenB], 0)

\* Mutant of addLiquidity: the reserves are read back from the pool's token
\* balances, as swap does, instead of being increased by the deposit.
addLiquidity_SyncToBalance(s, msgSender, _amountA, _amountB) ==
  LET r1 == transferFrom(s, s.tokenA, Pool, msgSender, Pool, _amountA) IN
  IF ~r1.ok THEN Revert(s, r1.err)
  ELSE
    LET r2 == transferFrom(r1.st, s.tokenB, Pool, msgSender, Pool, _amountB) IN
    IF ~r2.ok THEN Revert(s, r2.err)
    ELSE Return([r2.st EXCEPT
                   !.reserveA = r2.st.balanceOf[s.tokenA][Pool],
                   !.reserveB = r2.st.balanceOf[s.tokenB][Pool]], 0)

\* Mutant of addLiquidity: tokenB is credited to the reserve but not pulled
\* from the caller.
addLiquidity_SecondPullSkipped(s, msgSender, _amountA, _amountB) ==
  LET r1 == transferFrom(s, s.tokenA, Pool, msgSender, Pool, _amountA) IN
  IF ~r1.ok THEN Revert(s, r1.err)
  ELSE IF ~AddFits(r1.st.reserveA, _amountA) \/ ~AddFits(r1.st.reserveB, _amountB)
  THEN Revert(s, Panic)
  ELSE Return([r1.st EXCEPT !.reserveA = @ + _amountA,
                            !.reserveB = @ + _amountB], 0)

addLiquidity(s, msgSender, _amountA, _amountB) ==
  LET r1 == transferFrom(s, s.tokenA, Pool, msgSender, Pool, _amountA) IN
  IF ~r1.ok THEN Revert(s, r1.err)
  ELSE
    LET r2 == transferFrom(r1.st, s.tokenB, Pool, msgSender, Pool, _amountB) IN
    IF ~r2.ok THEN Revert(s, r2.err)
    ELSE IF ~AddFits(r2.st.reserveA, _amountA) \/ ~AddFits(r2.st.reserveB, _amountB)
    THEN Revert(s, Panic)
    ELSE Return([r2.st EXCEPT !.reserveA = @ + _amountA,
                              !.reserveB = @ + _amountB], 0)

\* Mutant of getAmountOut: the input is left out of the denominator.
getAmountOut_InputNotInDenominator(s, _amountIn, _tokenIn) ==
  IF ~(_tokenIn = s.tokenA \/ _tokenIn = s.tokenB)
  THEN Revert(s, "Invalid token")
  ELSE
    LET reserveIn == IF _tokenIn = s.tokenA THEN s.reserveA ELSE s.reserveB
        reserveOut == IF _tokenIn = s.tokenA THEN s.reserveB ELSE s.reserveA
    IN
    IF ~(reserveIn > 0 /\ reserveOut > 0)
    THEN Revert(s, "Not enough liquidity")
    ELSE IF ~MulFits(_amountIn, FeeNumerator) THEN Revert(s, Panic)
    ELSE
      LET amountInWithFee == (_amountIn * FeeNumerator) \div FeeDenominator IN
      IF ~MulFits(amountInWithFee, reserveOut)
      THEN Revert(s, Panic)
      ELSE Return(s, (amountInWithFee * reserveOut) \div reserveIn)

\* Mutant of getAmountOut: the reserves are not exchanged for tokenB input.
getAmountOut_ReservesNotExchanged(s, _amountIn, _tokenIn) ==
  IF ~(_tokenIn = s.tokenA \/ _tokenIn = s.tokenB)
  THEN Revert(s, "Invalid token")
  ELSE
    LET reserveIn == s.reserveA
        reserveOut == s.reserveB
    IN
    IF ~(reserveIn > 0 /\ reserveOut > 0)
    THEN Revert(s, "Not enough liquidity")
    ELSE IF ~MulFits(_amountIn, FeeNumerator) THEN Revert(s, Panic)
    ELSE
      LET amountInWithFee == (_amountIn * FeeNumerator) \div FeeDenominator IN
      IF ~MulFits(amountInWithFee, reserveOut) \/ ~AddFits(reserveIn, amountInWithFee)
      THEN Revert(s, Panic)
      ELSE Return(s, (amountInWithFee * reserveOut) \div (reserveIn + amountInWithFee))

getAmountOut(s, _amountIn, _tokenIn) ==
  IF ~(_tokenIn = s.tokenA \/ _tokenIn = s.tokenB)
  THEN Revert(s, "Invalid token")
  ELSE
    LET reserveIn == IF _tokenIn = s.tokenA THEN s.reserveA ELSE s.reserveB
        reserveOut == IF _tokenIn = s.tokenA THEN s.reserveB ELSE s.reserveA
    IN
    IF ~(reserveIn > 0 /\ reserveOut > 0)
    THEN Revert(s, "Not enough liquidity")
    ELSE IF ~MulFits(_amountIn, FeeNumerator) THEN Revert(s, Panic)
    ELSE
      LET amountInWithFee == (_amountIn * FeeNumerator) \div FeeDenominator IN
      IF ~MulFits(amountInWithFee, reserveOut) \/ ~AddFits(reserveIn, amountInWithFee)
      THEN Revert(s, Panic)
      ELSE Return(s, (amountInWithFee * reserveOut) \div (reserveIn + amountInWithFee))

\* Mutant of swap: the input is pulled before the output is quoted, and a
\* failing quote returns an error instead of reverting the call.
swap_DepositKeptOnFailure(s, msgSender, _amountIn, _tokenIn) ==
  IF ~(_amountIn > 0) THEN Revert(s, "Amount must be positive")
  ELSE IF ~(_tokenIn = s.tokenA \/ _tokenIn = s.tokenB)
  THEN Revert(s, "Invalid token")
  ELSE
    LET tokenOut == IF _tokenIn = s.tokenA THEN s.tokenB ELSE s.tokenA
        r1 == transferFrom(s, _tokenIn, Pool, msgSender, Pool, _amountIn)
    IN
    IF ~r1.ok THEN Revert(s, r1.err)
    ELSE
      LET q == getAmountOut(s, _amountIn, _tokenIn) IN
      IF ~q.ok THEN Revert(r1.st, q.err)
      ELSE
        LET r2 == transfer(r1.st, tokenOut, Pool, msgSender, q.ret) IN
        IF ~r2.ok THEN Revert(s, r2.err)
        ELSE Return([r2.st EXCEPT
                       !.reserveA = r2.st.balanceOf[s.tokenA][Pool],
                       !.reserveB = r2.st.balanceOf[s.tokenB][Pool]], 0)

\* Mutant of swap: the input is added to the reserve before the output is
\* quoted.
swap_QuoteAfterDeposit(s, msgSender, _amountIn, _tokenIn) ==
  IF ~(_amountIn > 0) THEN Revert(s, "Amount must be positive")
  ELSE
    LET s0 == IF _tokenIn = s.tokenA
              THEN [s EXCEPT !.reserveA = @ + _amountIn]
              ELSE [s EXCEPT !.reserveB = @ + _amountIn]
        q == getAmountOut(s0, _amountIn, _tokenIn)
    IN
    IF ~q.ok THEN Revert(s, q.err)
    ELSE
      LET amountOut == q.ret
          tokenIn == IF _tokenIn = s.tokenA THEN s.tokenA ELSE s.tokenB
          tokenOut == IF _tokenIn = s.tokenA THEN s.tokenB ELSE s.tokenA
          r1 == transferFrom(s, tokenIn, Pool, msgSender, Pool, _amountIn)
      IN
      IF ~r1.ok THEN Revert(s, r1.err)
      ELSE
        LET r2 == transfer(r1.st, tokenOut, Pool, msgSender, amountOut) IN
        IF ~r2.ok THEN Revert(s, r2.err)
        ELSE Return([r2.st EXCEPT
                       !.reserveA = r2.st.balanceOf[s.tokenA][Pool],
                       !.reserveB = r2.st.balanceOf[s.tokenB][Pool]], 0)

swap(s, msgSender, _amountIn, _tokenIn) ==
  IF ~(_amountIn > 0) THEN Revert(s, "Amount must be positive")
  ELSE
    LET q == getAmountOut(s, _amountIn, _tokenIn) IN
    IF ~q.ok THEN Revert(s, q.err)
    ELSE
      LET amountOut == q.ret
          tokenIn == IF _tokenIn = s.tokenA THEN s.tokenA ELSE s.tokenB
          tokenOut == IF _tokenIn = s.tokenA THEN s.tokenB ELSE s.tokenA
          r1 == transferFrom(s, tokenIn, Pool, msgSender, Pool, _amountIn)
      IN
      IF ~r1.ok THEN Revert(s, r1.err)
      ELSE
        LET r2 == transfer(r1.st, tokenOut, Pool, msgSender, amountOut) IN
        IF ~r2.ok THEN Revert(s, r2.err)
        ELSE Return([r2.st EXCEPT
                       !.reserveA = r2.st.balanceOf[s.tokenA][Pool],
                       !.reserveB = r2.st.balanceOf[s.tokenB][Pool]], 0)

\* ------------------------------------------------------------------------
\* MyToken and MyNFT  (src/deploy.ts 25-78)
\* ------------------------------------------------------------------------

MyToken_mint(s, to, value) ==
  IF ~AddFits(s.totalSupply[MT], value) \/ ~AddFits(s.balanceOf[MT][to], value)
  THEN Revert(s, Panic)
  ELSE Return([s EXCEPT !.totalSupply[MT] = @ + value,
                        !.balanceOf[MT][to] = @ + value], 0)

\* constructor(_name, _symbol, _initialSupply)
MyToken(s, msgSender, _initialSupply) == MyToken_mint(s, msgSender, _initialSupply)

MyToken_transfer(s, msgSender, to, value) ==
  IF ~(s.balanceOf[MT][msgSender] >= value)
  THEN Revert(s, "Insufficient balance")
  ELSE
    LET s1 == [s EXCEPT !.balanceOf[MT][msgSender] = @ - value] IN
    IF ~AddFits(s1.balanceOf[MT][to], value) THEN Revert(s, Panic)
    ELSE Return([s1 EXCEPT !.balanceOf[MT][to] = @ + value], 1)

\* constructor(_name, _symbol); nextTokenId is initialised to 1
MyNFT(s) == Return([s EXCEPT !.nextTokenId = 1, !.owners = <<>>], 0)

\* Mutant of safeMint: the id is taken after the increment (++nextTokenId).
safeMint_PreIncrement(s, to) ==
  IF ~AddFits(s.nextTokenId, 1) THEN Revert(s, Panic)
  ELSE
    LET tokenId == s.nextTokenId + 1 IN
    Return([s EXCEPT
              !.nextTokenId = tokenId,
              !.owners = [id \in DOMAIN s.owners \cup {tokenId} |->
                            IF id = tokenId THEN to ELSE s.owners[id]]],
           tokenId)

safeMint(s, to) ==
  IF ~AddFits(s.nextTokenId, 1) THEN Revert(s, Panic)
  ELSE
    LET tokenId == s.nextTokenId IN
    Return([s EXCEPT
              !.nextTokenId = tokenId + 1,
              !.owners = [id \in DOMAIN s.owners \cup {tokenId} |->
                            IF id = tokenId THEN to ELSE s.owners[id]]],
           tokenId)

\* _owners[tokenId], address(0) for an id never written
OwnerSlot(s, tokenId) ==
  IF tokenId \in DOMAIN s.owners THEN s.owners[tokenId] ELSE Zero

ownerOf(s, tokenId) ==
  IF ~(OwnerSlot(s, tokenId) # Zero) THEN Revert(s, "Token doesn't exist")
  ELSE Return(s, OwnerSlot(s, tokenId))

MyNFT_totalSupply(s) ==
  IF s.nextTokenId < 1 THEN Revert(s, Panic)
  ELSE Return(s, s.nextTokenId - 1)

\* ------------------------------------------------------------------------
\* SpecSwap: the deployed contracts under arbitrary calls
\* ------------------------------------------------------------------------

EmptyLedger ==
  [totalSupply |-> [t \in Tokens |-> 0],
   balanceOf |-> [t \in Tokens |-> [a \in Accounts |-> 0]],
   allowance |-> [t \in Tokens |-> [o \in Accounts |-> [sp \in Accounts |-> 0]]],
   reserveA |-> 0, reserveB |-> 0, tokenA |-> None, tokenB |-> None,
   nextTokenId |-> 0, owners |-> <<>>,
   approved |-> [t \in Tokens |-> [o \in Accounts |-> [sp \in Accounts |-> 0]]],
   moved |-> [t \in Tokens |-> [o \in Accounts |-> [sp \in Accounts |-> 0]]]]

\* No script runs (the specifications of the contracts alone).
RunIdle ==
  /\ prog = "none"
  /\ hasKey = FALSE
  /\ hasRpc = FALSE
  /\ faults = FALSE
  /\ pc = "done"
  /\ ip = 0
  /\ exitCode = 0
  /\ txs = <<>>
  /\ addr = [tokenA |-> None, tokenB |-> None, swap |-> None,
             token |-> None, nft |-> None]
  /\ netCalls = 0
  /\ diags = <<>>
  /\ failedAt = 0
  /\ balanceBefore = 0
  /\ balanceAfter = 0
  /\ pre = EmptyLedger

NoCall ==
  [op |-> "none", caller |-> None, token |-> None, from |-> None, to |-> None,
   a |-> 0, b |-> 0, ok |-> FALSE, err |-> "", ret |-> 0]

\* The ledger after the three deployments of main(), by the wallet.
Deployed(supplyA, supplyB) ==
  LET s1 == TestERC20(EmptyLedger, TA, Wallet, supplyA).st
      s2 == TestERC20(s1, TB, Wallet, supplyB).st
  IN SimpleSwap(s2, TA, TB).st

\* The wallet has deployed the three contracts and approved the pool on both
\* tokens, as main() does before it first calls the pool.
Approved(s, amountA, amountB) ==
  approve(approve(s, TA, Wallet, Pool, amountA).st, TB, Wallet, Pool, amountB).st

InitSwap ==
  /\ Holds(Approved(Deployed(SwapSupply, SwapSupply), 2 * MaxAmount, 2 * MaxAmount))
  /\ last = NoCall
  /\ nops = 0
  /\ RunIdle

Callers == {Wallet, Other}
Amounts == 0 .. MaxAmount
PairTokens == {TA, TB}

\* What a call leaves to be observed.  A successful call is observed with its
\* arguments and return value; a reverted call leaves no trace on the ledger
\* and is observed as its operation and revert reason only.
Observed(op, caller, token, from, to, a, b, r) ==
  IF r.ok
  THEN [op |-> op, caller |-> caller, token |-> token, from |-> from,
        to |-> to, a |-> a, b |-> b, ok |-> TRUE, err |-> "", ret |-> r.ret]
  ELSE [NoCall EXCEPT !.op = op, !.err = r.err]

\* One external call: the ledger takes the call's outcome (unchanged when it
\* reverted) and the call is recorded.
Call(op, caller, token, from, to, a, b, r) ==
  /\ nops < MaxOps
  /\ Commit(r.st)
  /\ last' = Observed(op, caller, token, from, to, a, b, r)
  /\ nops' = nops + 1
  /\ UNCHANGED runVars

\* A read-only call (eth_call), seen by its caller with its arguments whether
\* it returns or reverts.
View(op, token, a, r) ==
  /\ nops < MaxOps
  /\ UNCHANGED chainVars
  /\ last' = [NoCall EXCEPT !.op = op, !.token = token, !.a = a,
                            !.ok = r.ok, !.err = r.err, !.ret = r.ret]
  /\ nops' = nops + 1
  /\ UNCHANGED runVars

\* approve(pool, amt): the wallet resets its allowance (0 withdraws it); the
\* other account, which holds no tokens, grants one.
CallApprove ==
  \/ \E t \in PairTokens, amt \in {0, MaxAmount} :
       Call("approve", Wallet, t, Wallet, Pool, amt, 0,
            approve(St, t, Wallet, Pool, amt))
  \/ Call("approve", Other, TA, Other, Pool, MaxAmount, 0,
          approve(St, TA, Other, Pool, MaxAmount))

\* Tokens sent to the pool directly, outside addLiquidity and swap.
CallTransfer ==
  \E t \in PairTokens :
    Call("transfer", Wallet, t, Wallet, Pool, 1, 0,
         transfer(St, t, Wallet, Pool, 1))

CallAddLiquidity ==
  \E a \in Amounts, b \in Amounts :
    Call("addLiquidity", Wallet, None, Wallet, Pool, a, b,
         addLiquidity(St, Wallet, a, b))

CallSwap ==
  \E c \in Callers, amt \in Amounts, tin \in {TA, TB, Wallet} :
    Call("swap", c, tin, c, Pool, amt, 0, swap(St, c, amt, tin))

NextSwap ==
  \/ CallApprove
  \/ CallTransfer
  \/ CallAddLiquidity
  \/ CallSwap

SpecSwap == InitSwap /\ [][NextSwap]_vars

\* ------------------------------------------------------------------------
\* SpecToken: one TestERC20 under approve / transfer / transferFrom
\* ------------------------------------------------------------------------

InitToken ==
  /\ Holds(Deployed(SwapSupply, SwapSupply))
  /\ last = NoCall
  /\ nops = 0
  /\ RunIdle

TokApprove ==
  \E c \in Callers, sp \in Callers, amt \in Amounts :
    Call("approve", c, TA, c, sp, amt, 0, approve(St, TA, c, sp, amt))

TokTransfer ==
  \E c \in Callers, to \in {Wallet, Other, Zero}, amt \in Amounts :
    Call("transfer", c, TA, c, to, amt, 0, transfer(St, TA, c, to, amt))

TokTransferFrom ==
  \E c \in Callers, from \in Callers, to \in {Wallet, Other, Zero},
     amt \in Amounts :
    Call("transferFrom", c, TA, from, to, amt, 0,
         transferFrom(St, TA, c, from, to, amt))

NextToken ==
  \/ TokApprove
  \/ TokTransfer
  \/ TokTransferFrom

SpecToken == InitToken /\ [][NextToken]_vars

\* ------------------------------------------------------------------------
\* SpecQuote: getAmountOut on pools of enumerated reserves
\* ------------------------------------------------------------------------

\* Supplies, liquidity and inputs, in token units of 10 ** decimals smallest
\* units as main() uses them, and in smallest units for the quotes.
SupplyA == 100000
SupplyB == 10000

QuoteReserves == {0, 1, 3, 1000}
QuoteAmounts == {0, 1, 2, 100, 1000, MaxUint}

\* The pool after the wallet approved it and added liquidity (ra, rb).
Funded(ra, rb) ==
  addLiquidity(Approved(Deployed(SupplyA, SupplyB), ra, rb), Wallet, ra, rb).st

InitQuote ==
  /\ \E ra \in QuoteReserves, rb \in QuoteReserves : Holds(Funded(ra, rb))
  /\ last = NoCall
  /\ nops = 0
  /\ RunIdle

QuoteGetAmountOut ==
  \E amt \in QuoteAmounts, tin \in {TA, TB, Wallet} :
    View("getAmountOut", tin, amt, getAmountOut(St, amt, tin))

NextQuote == QuoteGetAmountOut

SpecQuote == InitQuote /\ [][NextQuote]_vars

\* ------------------------------------------------------------------------
\* SpecNFT: the deployed MyNFT under safeMint / ownerOf / totalSupply
\* ------------------------------------------------------------------------

InitNFT ==
  /\ Holds(MyNFT(EmptyLedger).st)
  /\ last = NoCall
  /\ nops = 0
  /\ RunIdle

\* The token ids a caller asks about: 0, the ids that can exist, and one more.
TokenIds == 0 .. MaxOps + 1

\* safeMint(to) by any account, to any address, address(0) included.
NftSafeMint ==
  \E c \in Callers, to \in {Wallet, Other, Zero} :
    Call("safeMint", c, None, c, to, 0, 0, safeMint(St, to))

NftOwnerOf ==
  \E tokenId \in TokenIds :
    View("ownerOf", None, tokenId, ownerOf(St, tokenId))

NftTotalSupply ==
  View("totalSupply", None, 0, MyNFT_totalSupply(St))

NextNFT ==
  \/ NftSafeMint
  \/ NftOwnerOf
  \/ NftTotalSupply

SpecNFT == InitNFT /\ [][NextNFT]_vars

\* ------------------------------------------------------------------------
\* The scripts: main() of bot.ts and deploy() of deploy.ts
\* ------------------------------------------------------------------------

\* Mutant of LiquidityA: the whole supply of tokenA goes into the pool.
LiquidityA_WholeSupply == SupplyA

LiquidityA == 50000
LiquidityB == 500
SwapAmount == 100
SwapCount == 10

\* Mutant of SwapApproval: the approval covers one swap less than the loop makes.
SwapApproval_NineSwaps == (SwapCount - 1) * SwapAmount

SwapApproval == 1000
MyTokenSupply == 1000000
BurnAmount == 1000

NFT == "nft"

\* One step of a script: a credential check, a read from the endpoint, a
\* compiler run, a transaction (submitted, then awaited) or a pause.  i is the
\* swap loop's counter (0 outside the loop), or the number of the mint.
Step(kind, name, i) == [kind |-> kind, name |-> name, i |-> i]

BotSetup ==
  <<Step("key", "PRIVATE_KEY", 0),
    Step("read", "getBalance", 0),
    Step("compile", "TestERC20.sol", 0),
    Step("compile", "SimpleSwap.sol", 0),
    Step("tx", "deployTokenA", 0),
    Step("tx", "deployTokenB", 0),
    Step("tx", "deployPool", 0),
    Step("tx", "approveA", 0),
    Step("tx", "approveB", 0),
    Step("tx", "addLiquidity", 0),
    Step("tx", "approveSwap", 0)>>

\* The body of the swap loop, inside its try block.
SwapIteration(i) ==
  <<Step("read", "balanceBefore", i),
    Step("tx", "swap", i),
    Step("read", "balanceAfter", i),
    Step("sleep", "sleep", i)>>

BotProgram ==
  BotSetup \o [k \in 1 .. 4 * SwapCount |->
                 SwapIteration(((k - 1) \div 4) + 1)[((k - 1) % 4) + 1]]

DeployProgram ==
  <<Step("key", "PRIVATE_KEY", 0),
    Step("read", "getBalance", 0),
    Step("compile", "MyToken.sol", 0),
    Step("tx", "deployToken", 0),
    Step("compile", "MyNFT.sol", 0),
    Step("tx", "deployNFT", 0),
    Step("tx", "safeMint", 1),
    Step("tx", "safeMint", 2),
    Step("read", "totalSupply", 0),
    Step("tx", "transfer", 0)>>

Program ==
  IF prog = "bot" THEN BotProgram
  ELSE IF prog = "deploy" THEN DeployProgram
  ELSE <<>>

AtStep(kind) ==
  /\ pc = "run"
  /\ ip \in DOMAIN Program
  /\ Program[ip].kind = kind

\* The transaction a "tx" step submits, with the addresses the script holds
\* at that moment: to is the contract called (None for a deployment).
TxOf(st) ==
  LET tx(to, a1, a2) ==
        [step |-> ip, name |-> st.name, i |-> st.i, status |-> "pending",
         to |-> to, a1 |-> a1, a2 |-> a2]
  IN CASE st.name = "deployTokenA" -> tx(None, SupplyA, 0)
       [] st.name = "deployTokenB" -> tx(None, SupplyB, 0)
       [] st.name = "deployPool" -> tx(None, addr.tokenA, addr.tokenB)
       [] st.name = "approveA" -> tx(addr.tokenA, addr.swap, LiquidityA * Unit)
       [] st.name = "approveB" -> tx(addr.tokenB, addr.swap, LiquidityB * Unit)
       [] st.name = "addLiquidity" ->
            tx(addr.swap, LiquidityA * Unit, LiquidityB * Unit)
       [] st.name = "approveSwap" ->
            tx(addr.tokenA, addr.swap, SwapApproval * Unit)
       [] st.name = "swap" -> tx(addr.swap, SwapAmount * Unit, addr.tokenA)
       [] st.name = "deployToken" -> tx(None, MyTokenSupply * Unit, 0)
       [] st.name = "deployNFT" -> tx(None, 0, 0)
       [] st.name = "safeMint" -> tx(addr.nft, Wallet, 0)
       [] st.name = "transfer" -> tx(addr.token, Dead, BurnAmount * Unit)

\* The ledger executes transaction tx, sent by the wallet, on state s.
Exec(s, tx) ==
  CASE tx.name = "deployTokenA" -> TestERC20(s, TA, Wallet, tx.a1)
    [] tx.name = "deployTokenB" -> TestERC20(s, TB, Wallet, tx.a1)
    [] tx.name = "deployPool" -> SimpleSwap(s, tx.a1, tx.a2)
    [] tx.name \in {"approveA", "approveB", "approveSwap"} ->
         IF tx.to \in PairTokens
         THEN approve(s, tx.to, Wallet, tx.a1, tx.a2)
         ELSE Revert(s, "no contract")
    [] tx.name = "addLiquidity" ->
         IF tx.to = Pool THEN addLiquidity(s, Wallet, tx.a1, tx.a2)
         ELSE Revert(s, "no contract")
    [] tx.name = "swap" ->
         IF tx.to = Pool THEN swap(s, Wallet, tx.a1, tx.a2)
         ELSE Revert(s, "no contract")
    [] tx.name = "deployToken" -> MyToken(s, Wallet, tx.a1)
    [] tx.name = "deployNFT" -> MyNFT(s)
    [] tx.name = "safeMint" ->
         IF tx.to = NFT THEN safeMint(s, tx.a1) ELSE Revert(s, "no contract")
    [] tx.name = "transfer" ->
         IF tx.to = MT THEN MyToken_transfer(s, Wallet, tx.a1, tx.a2)
         ELSE Revert(s, "no contract")

\* The address a confirmed deployment reports (getAddress).
AddrAfter(tx) ==
  CASE tx.name = "deployTokenA" -> [addr EXCEPT !.tokenA = TA]
    [] tx.name = "deployTokenB" -> [addr EXCEPT !.tokenB = TB]
    [] tx.name = "deployPool" -> [addr EXCEPT !.swap = Pool]
    [] tx.name = "deployToken" -> [addr EXCEPT !.token = MT]
    [] tx.name = "deployNFT" -> [addr EXCEPT !.nft = NFT]
    [] OTHER -> addr

\* Mutant of OnThrow: the swap loop's catch goes on with the next iteration.
OnThrow_LoopContinues(p, st) ==
  IF p = "bot" /\ st.i > 0
  THEN [pc |-> "run", ip |-> Len(BotSetup) + 4 * st.i + 1, exitCode |-> exitCode]
  ELSE [pc |-> "done", ip |-> ip, exitCode |-> 1]

\* Mutant of OnThrow: an error outside the swap loop is logged and the script
\* goes on with its next step.
OnThrow_SetupContinues(p, st) ==
  IF p = "bot" /\ st.i > 0
  THEN [pc |-> "run", ip |-> Len(BotProgram) + 1, exitCode |-> exitCode]
  ELSE [pc |-> "run", ip |-> ip + 1, exitCode |-> 1]

\* Mutant of OnThrow: the step that threw is run again.
OnThrow_Retry(p, st) == [pc |-> "run", ip |-> ip, exitCode |-> exitCode]

\* Where control goes when step st of script p throws.  In main() the swap
\* loop's catch logs and breaks, to the line after the loop; any other error
\* reaches main().catch, which sets process.exitCode = 1.  deploy() catches
\* every error and calls process.exit(1).
OnThrow(p, st) ==
  IF p = "bot" /\ st.i > 0
  THEN [pc |-> "run", ip |-> Len(BotProgram) + 1, exitCode |-> exitCode]
  ELSE [pc |-> "done", ip |-> ip, exitCode |-> 1]

Thrown ==
  LET t == OnThrow(prog, Program[ip]) IN
  /\ pc' = t.pc
  /\ ip' = t.ip
  /\ exitCode' = t.exitCode
  /\ failedAt' = IF failedAt = 0 THEN ip ELSE failedAt

Proceed ==
  /\ pc' = "run"
  /\ ip' = ip + 1
  /\ UNCHANGED <<exitCode, failedAt>>

\* Mutant of AfterSubmit: the confirmation is not awaited.
AfterSubmit_NotAwaited == [pc |-> "run", ip |-> ip + 1]

\* After a transaction is submitted the script awaits its confirmation
\* (waitForDeployment, tx.wait) at the same step.
AfterSubmit == [pc |-> "wait", ip |-> ip]

\* if (!PRIVATE_KEY): main() logs and returns; deploy() throws.
DoKey ==
  /\ AtStep("key")
  /\ IF hasKey THEN Proceed
     ELSE IF prog = "bot"
     THEN pc' = "done" /\ UNCHANGED <<ip, exitCode, failedAt>>
     ELSE Thrown
  /\ UNCHANGED <<chainVars, callVars, prog, hasKey, hasRpc, faults, txs, addr,
                 netCalls, diags, balanceBefore, balanceAfter, pre>>

\* provider.getBalance, token.balanceOf, nft.totalSupply: a request to the
\* endpoint (the library's default endpoint when deploy.ts is given none).
DoRead ==
  /\ AtStep("read")
  /\ netCalls' = netCalls + 1
  /\ \/ /\ Proceed
        /\ balanceBefore' = IF Program[ip].name = "balanceBefore"
                            THEN balanceOf[addr.tokenB][Wallet]
                            ELSE balanceBefore
        /\ balanceAfter' = IF Program[ip].name = "balanceAfter"
                           THEN balanceOf[addr.tokenB][Wallet]
                           ELSE balanceAfter
     \/ /\ faults
        /\ Thrown
        /\ UNCHANGED <<balanceBefore, balanceAfter>>
  /\ UNCHANGED <<chainVars, callVars, prog, hasKey, hasRpc, faults, txs, addr,
                 diags, pre>>

\* compileContract: throws when the compiler's output has an errors array,
\* which holds its warnings as well as its errors.
DoCompile ==
  /\ AtStep("compile")
  /\ \E d \in (IF faults THEN {"none", "warning", "error"} ELSE {"none"}) :
       /\ diags' = Append(diags, [unit |-> Program[ip].name, diag |-> d, at |-> ip])
       /\ IF d = "none" THEN Proceed ELSE Thrown
  /\ UNCHANGED <<chainVars, callVars, prog, hasKey, hasRpc, faults, txs, addr,
                 netCalls, balanceBefore, balanceAfter, pre>>

\* await factory.deploy(...) / await contract.method(...): the transaction is
\* sent, or sending it throws.
DoSubmit ==
  /\ AtStep("tx")
  /\ netCalls' = netCalls + 1
  /\ \/ /\ txs' = Append(txs, TxOf(Program[ip]))
        /\ pc' = AfterSubmit.pc
        /\ ip' = AfterSubmit.ip
        /\ UNCHANGED <<exitCode, failedAt>>
     \/ /\ faults
        /\ Thrown
        /\ UNCHANGED txs
  /\ UNCHANGED <<chainVars, callVars, prog, hasKey, hasRpc, faults, addr, diags,
                 balanceBefore, balanceAfter, pre>>

FirstPending ==
  CHOOSE k \in DOMAIN txs :
    /\ txs[k].status = "pending"
    /\ \A j \in DOMAIN txs : txs[j].status = "pending" => k <= j

\* The ledger executes the wallet's oldest pending transaction: its effects
\* are applied, or it reverts and changes nothing.
Mine ==
  /\ \E k \in DOMAIN txs : txs[k].status = "pending"
  /\ LET k == FirstPending
         r == Exec(St, txs[k])
     IN /\ Commit(r.st)
        /\ txs' = [txs EXCEPT ![k].status = IF r.ok THEN "confirmed" ELSE "reverted"]
  /\ pre' = St
  /\ UNCHANGED <<callVars, prog, hasKey, hasRpc, faults, pc, ip, exitCode, addr,
                 netCalls, diags, failedAt, balanceBefore, balanceAfter>>

\* The transaction is never confirmed (dropped, replaced, timed out).
Drop ==
  /\ faults
  /\ \E k \in DOMAIN txs : txs[k].status = "pending"
  /\ txs' = [txs EXCEPT ![FirstPending].status = "dropped"]
  /\ UNCHANGED <<chainVars, callVars, prog, hasKey, hasRpc, faults, pc, ip,
                 exitCode, addr, netCalls, diags, failedAt, balanceBefore,
                 balanceAfter, pre>>

\* await waitForDeployment() / await tx.wait() returns with the confirmation
\* (and the script reads the new contract's address), or throws.
DoAwait ==
  /\ pc = "wait"
  /\ txs[Len(txs)].status # "pending"
  /\ IF txs[Len(txs)].status = "confirmed"
     THEN Proceed /\ addr' = AddrAfter(txs[Len(txs)])
     ELSE Thrown /\ UNCHANGED addr
  /\ UNCHANGED <<chainVars, callVars, prog, hasKey, hasRpc, faults, txs,
                 netCalls, diags, balanceBefore, balanceAfter, pre>>

\* await sleep(500)
DoSleep ==
  /\ AtStep("sleep")
  /\ Proceed
  /\ UNCHANGED <<chainVars, callVars, prog, hasKey, hasRpc, faults, txs, addr,
                 netCalls, diags, balanceBefore, balanceAfter, pre>>

\* The last line of the script is reached and the process ends.
DoFinish ==
  /\ pc = "run"
  /\ ip = Len(Program) + 1
  /\ pc' = "done"
  /\ UNCHANGED <<chainVars, callVars, prog, hasKey, hasRpc, faults, ip, exitCode,
                 txs, addr, netCalls, diags, failedAt, balanceBefore,
                 balanceAfter, pre>>

InitRun ==
  /\ Holds(EmptyLedger)
  /\ last = NoCall
  /\ nops = 0
  /\ prog \in {"bot", "deploy"}
  /\ hasKey \in BOOLEAN
  /\ hasRpc \in (IF prog = "bot" THEN {TRUE} ELSE BOOLEAN)
  /\ faults \in BOOLEAN
  /\ pc = "run"
  /\ ip = 1
  /\ exitCode = 0
  /\ txs = <<>>
  /\ addr = [tokenA |-> None, tokenB |-> None, swap |-> None,
             token |-> None, nft |-> None]
  /\ netCalls = 0
  /\ diags = <<>>
  /\ failedAt = 0
  /\ balanceBefore = 0
  /\ balanceAfter = 0
  /\ pre = EmptyLedger

NextRun ==
  \/ DoKey
  \/ DoRead
  \/ DoCompile
  \/ DoSubmit
  \/ Mine
  \/ Drop
  \/ DoAwait
  \/ DoSleep
  \/ DoFinish

SpecRun == InitRun /\ [][NextRun]_vars

\* A step of the script itself: every await of main() and deploy() resumes
\* when the event loop delivers its result.
ScriptStep ==
  \/ DoKey
  \/ DoRead
  \/ DoCompile
  \/ DoSubmit
  \/ DoAwait
  \/ DoSleep
  \/ DoFinish

\* The run on a ledger that processes every transaction it was sent, with a
\* script that is not stopped from outside.
SpecRunLive ==
  /\ InitRun
  /\ [][NextRun]_vars
  /\ WF_vars(ScriptStep)
  /\ WF_vars(Mine)

\* ------------------------------------------------------------------------
\* Claims
\* ------------------------------------------------------------------------

\* C1: every successful swap, in either direction, leaves the product
\* reserveA * reserveB at least what it was before the swap.
C1_ProductNeverDecreases ==
  [][(last'.op = "swap" /\ last'.ok)
       => reserveA' * reserveB' >= reserveA * reserveB]_vars

\* A swap of tokenA has paid out tokenB: the pool holds less tokenB than the
\* wallet has deposited under its current approval.
C1_Witness ==
  /\ last.op = "swap" /\ last.ok /\ last.token = TA
  /\ balanceOf[TB][Pool] < moved[TB][Wallet][Pool]

\* C8: a transferFrom by a spender succeeds only for an amount within the
\* owner's current allowance to that spender and lowers the allowance by
\* exactly that amount; the total moved since the latest approve never exceeds
\* the amount that approve recorded.
C8_AllowanceBoundsSpending ==
  /\ [](\A t \in Tokens, o \in Accounts, sp \in Accounts :
          /\ moved[t][o][sp] <= approved[t][o][sp]
          /\ allowance[t][o][sp] = approved[t][o][sp] - moved[t][o][sp])
  /\ [][(last'.op = "transferFrom" /\ last'.ok)
          => LET t == last'.token
                 o == last'.from
                 sp == last'.caller
             IN /\ last'.a <= allowance[t][o][sp]
                /\ allowance'[t][o][sp] = allowance[t][o][sp] - last'.a]_vars

\* A spender has moved tokens twice under one approval.
C8_Witness ==
  /\ last.op = "transferFrom" /\ last.ok /\ last.a > 0
  /\ moved[TA][last.from][last.caller] > last.a

\* C9: a successful addLiquidity(a, b) adds exactly a and b to the reserves
\* and moves exactly a of tokenA and b of tokenB from the caller to the pool.
C9_AddLiquidityExact ==
  [][(last'.op = "addLiquidity" /\ last'.ok)
       => LET a == last'.a
              b == last'.b
              c == last'.caller
          IN /\ reserveA' = reserveA + a
             /\ reserveB' = reserveB + b
             /\ balanceOf'[tokenA][c] = balanceOf[tokenA][c] - a
             /\ balanceOf'[tokenA][Pool] = balanceOf[tokenA][Pool] + a
             /\ balanceOf'[tokenB][c] = balanceOf[tokenB][c] - b
             /\ balanceOf'[tokenB][Pool] = balanceOf[tokenB][Pool] + b]_vars

\* Liquidity has been added to a pool that already held reserves and tokens
\* sent to it directly.
C9_Witness ==
  /\ last.op = "addLiquidity" /\ last.ok /\ last.a > 0 /\ last.b > 0
  /\ reserveA > last.a
  /\ balanceOf[TA][Pool] > reserveA

\* q = floor(n / d), stated by the two inequalities that define it.
IsFloor(q, n, d) == q * d <= n /\ n < (q + 1) * d

\* The reserves getAmountOut reads for input token tin.
ReserveIn(tin) == IF tin = tokenA THEN reserveA ELSE reserveB
ReserveOut(tin) == IF tin = tokenA THEN reserveB ELSE reserveA

\* The three intermediate results of the quote fit in a uint256.
QuoteFits(a, rin, rout) ==
  /\ MulFits(a, FeeNumerator)
  /\ MulFits((a * FeeNumerator) \div FeeDenominator, rout)
  /\ AddFits(rin, (a * FeeNumerator) \div FeeDenominator)

\* The value C2 gives: floor(f * reserveOut / (reserveIn + f)) with
\* f = floor(amountIn * 997 / 1000).
IsQuote(q, a, rin, rout) ==
  \E f \in 0 .. a :
    /\ IsFloor(f, a * 997, 1000)
    /\ IsFloor(q, f * rout, rin + f)

\* C2 as stated: for all amountIn > 0 and positive reserves, getAmountOut
\* returns exactly floor(floor(amountIn*997/1000) * reserveOut /
\* (reserveIn + floor(amountIn*997/1000))), with the reserves taken in the
\* direction of tokenIn.
C2_Original ==
  (/\ last.op = "getAmountOut"
   /\ last.token \in {tokenA, tokenB}
   /\ last.a > 0
   /\ ReserveIn(last.token) > 0
   /\ ReserveOut(last.token) > 0)
    => /\ last.ok
       /\ IsQuote(last.ret, last.a, ReserveIn(last.token), ReserveOut(last.token))

\* C2 (amended): the same, for the inputs whose intermediate results
\* amountIn*997, amountInWithFee*reserveOut and reserveIn+amountInWithFee fit
\* in a uint256; for the others the call reverts.  quote(100, 1000, 1000) = 90.
C2_QuoteFormula ==
  (/\ last.op = "getAmountOut"
   /\ last.token \in {tokenA, tokenB}
   /\ last.a > 0
   /\ ReserveIn(last.token) > 0
   /\ ReserveOut(last.token) > 0)
    => LET rin == ReserveIn(last.token)
           rout == ReserveOut(last.token)
       IN IF QuoteFits(last.a, rin, rout)
          THEN /\ last.ok
               /\ IsQuote(last.ret, last.a, rin, rout)
               /\ (last.a = 100 /\ rin = 1000 /\ rout = 1000) => last.ret = 90
          ELSE ~last.ok /\ last.err = Panic

\* A quote has been given for tokenB input on a pool whose reserves differ, so
\* that reading them in the other direction gives another value.
C2_Witness ==
  /\ last.op = "getAmountOut" /\ last.ok /\ last.ret > 0
  /\ last.token = tokenB /\ last.a = 100
  /\ reserveB = 3 /\ reserveA = 1000

\* C10 as stated: getAmountOut reverts with "Not enough liquidity" whenever
\* the reserve it reads as input or output is 0, and reverts whenever
\* amountIn = 0; it returns no value in those cases.
C10_QuotePreconditions ==
  (last.op = "getAmountOut" /\ last.token \in {tokenA, tokenB})
    => /\ (ReserveIn(last.token) = 0 \/ ReserveOut(last.token) = 0)
            => (~last.ok /\ last.err = "Not enough liquidity")
       /\ (last.a = 0) => ~last.ok

\* The transactions of txs with status st, by index.
WithStatus(st) == {k \in DOMAIN txs : txs[k].status = st}

Named(name) == {k \in DOMAIN txs : txs[k].name = name}

\* The step of the script that threw, when one did.
FailedStep == Program[failedAt]

\* C3: the wallet's transactions are submitted in the script's order, at most
\* one is unconfirmed at any time, each is submitted only after every earlier
\* one was confirmed, and the pool's deployment is submitted after both token
\* deployments were confirmed, with their two addresses as its arguments.
C3_ProgramOrder ==
  /\ Cardinality(WithStatus("pending")) <= 1
  /\ \A k \in DOMAIN txs :
       k < Len(txs) => /\ txs[k].status = "confirmed"
                       /\ txs[k].step < txs[k + 1].step
  /\ \A k \in Named("deployPool") :
       /\ \E j \in Named("deployTokenA") : j < k /\ txs[j].status = "confirmed"
       /\ \E j \in Named("deployTokenB") : j < k /\ txs[j].status = "confirmed"
       /\ txs[k].a1 = TA
       /\ txs[k].a2 = TB

\* The second swap is in flight, after the seven transactions of the setup
\* and the first swap.
C3_Witness ==
  /\ prog = "bot"
  /\ Len(txs) = 9
  /\ txs[9].name = "swap" /\ txs[9].i = 2 /\ txs[9].status = "pending"
  /\ tokenA = TA /\ tokenB = TB

\* C4: when swap k is the first swap whose submission or confirmation fails,
\* exactly k - 1 swaps have been confirmed and no swap after k is submitted.
C4_FailFast ==
  (/\ prog = "bot"
   /\ failedAt # 0
   /\ FailedStep.name = "swap")
    => LET k == FailedStep.i IN
       /\ Cardinality(Named("swap") \cap WithStatus("confirmed")) = k - 1
       /\ \A j \in Named("swap") : txs[j].i <= k

\* Swap 4 was submitted and reverted or was dropped, and the script has ended.
C4_Witness ==
  /\ prog = "bot" /\ pc = "done"
  /\ failedAt # 0 /\ FailedStep.name = "swap" /\ FailedStep.i = 4
  /\ \E j \in Named("swap") : txs[j].i = 4 /\ txs[j].status = "dropped"
  /\ Cardinality(Named("swap") \cap WithStatus("confirmed")) = 3

\* A step outside the swap loop threw.
SetupFailed ==
  /\ failedAt # 0
  /\ (prog = "bot" => FailedStep.i = 0)

\* C5: when a deployment or setup step fails, the script ends: no later step
\* is submitted, no swap is submitted, and what the confirmed steps did on
\* the ledger stays as it was.
C5_SetupFailureAborts ==
  /\ [](SetupFailed =>
          /\ pc = "done"
          /\ ip = failedAt
          /\ \A k \in DOMAIN txs : txs[k].step <= failedAt
          /\ Named("swap") = {})
  /\ [][SetupFailed' => (UNCHANGED chainVars /\ Len(txs') = Len(txs))]_vars

\* addLiquidity failed; both tokens and the pool stay deployed and the pool
\* keeps the allowances the two confirmed approvals gave it.
C5_Witness ==
  /\ prog = "bot" /\ pc = "done"
  /\ failedAt # 0 /\ FailedStep.name = "addLiquidity"
  /\ totalSupply[TA] = SupplyA * Unit
  /\ totalSupply[TB] = SupplyB * Unit
  /\ tokenA = TA
  /\ allowance[TA][Wallet][Pool] = LiquidityA * Unit
  /\ allowance[TB][Wallet][Pool] = LiquidityB * Unit
  /\ reserveA = 0

\* The script ran to its last line with no step throwing.
Completed ==
  /\ hasKey
  /\ failedAt = 0
  /\ ip = Len(Program) + 1

\* C6 as stated: the exit status is 0 exactly when the whole pipeline
\* completed, and non-zero after a missing credential, a compilation failure,
\* a deployment or setup failure, or a failed swap.
C6_ExitStatus ==
  (pc = "done" /\ prog \in {"bot", "deploy"}) => (exitCode = 0 <=> Completed)

\* C7 as stated: with the signing credential or the RPC endpoint missing, no
\* request is sent to the network.
C7_NoNetworkWithoutConfig ==
  (prog \in {"bot", "deploy"} /\ (~hasKey \/ ~hasRpc)) => netCalls = 0

\* C11 as stated: a compiler run that returns a diagnostic flagged as error
\* ends the script with no deployment transaction submitted, and a compiler
\* run that returns no such diagnostic does not end the script.
C11_CompileFailureBeforeDeployment ==
  \A k \in DOMAIN diags :
    /\ diags[k].diag = "error"
         => (pc = "done" /\ failedAt = diags[k].at /\ txs = <<>>)
    /\ diags[k].diag # "error" => failedAt # diags[k].at

\* C12: no step is retried.  Each step of the script submits at most one
\* transaction (each deployment, approval, addLiquidity, and each swap index),
\* and once a step has failed nothing is submitted for it again.
C12_NoRetry ==
  /\ [](\A j \in DOMAIN txs, k \in DOMAIN txs :
          (txs[j].step = txs[k].step
             \/ (txs[j].name = txs[k].name /\ txs[j].i = txs[k].i)) => j = k)
  /\ [][Len(txs') > Len(txs)
          => /\ failedAt = 0 \/ txs'[Len(txs')].step # failedAt
             /\ \A k \in DOMAIN txs :
                  txs[k].status \in {"reverted", "dropped"}
                    => txs'[Len(txs')].step # txs[k].step]_vars

\* The approval for the swaps was sent once and never confirmed, and the
\* script has ended with the seven transactions of its setup.
C12_Witness ==
  /\ prog = "bot" /\ pc = "done"
  /\ failedAt # 0 /\ FailedStep.name = "approveSwap"
  /\ Len(txs) = 7
  /\ txs[7].name = "approveSwap" /\ txs[7].status = "dropped"

\* The transactions named name that the ledger has confirmed.
Confirmed(name) == Named(name) \cap WithStatus("confirmed")

\* C13: the allowance main() approves on tokenA before the swap loop is
\* SwapCount * SwapAmount = 1000 units; it is approved when the allowance
\* given for the liquidity has been used up (0 after addLiquidity), so that
\* it is the whole allowance; after k confirmed swaps (SwapCount - k) *
\* SwapAmount units are left, no swap reverts, and the allowance is 0 after
\* the tenth swap.
C13_SwapAllowance ==
  prog = "bot" =>
    LET k == Cardinality(Confirmed("swap")) IN
    /\ SwapApproval = SwapCount * SwapAmount
    /\ \A j \in Named("approveSwap") :
         txs[j].a2 = SwapCount * SwapAmount * Unit
    /\ (Confirmed("addLiquidity") # {} /\ Confirmed("approveSwap") = {})
         => /\ allowance[TA][Wallet][Pool] = 0
            /\ allowance[TB][Wallet][Pool] = 0
    /\ Confirmed("approveSwap") # {}
         => allowance[TA][Wallet][Pool] = (SwapCount - k) * SwapAmount * Unit
    /\ \A j \in Named("swap") : txs[j].status # "reverted"
    /\ k <= SwapCount
    /\ k = SwapCount => allowance[TA][Wallet][Pool] = 0

\* The tenth swap has been confirmed and has used up the allowance.
C13_Witness ==
  /\ prog = "bot"
  /\ Cardinality(Confirmed("swap")) = SwapCount
  /\ allowance[TA][Wallet][Pool] = 0
  /\ moved[TA][Wallet][Pool] = SwapApproval * Unit

\* C14: for each swap of the loop that is confirmed, the tokenB balance the
\* script reads after the confirmation minus the one it read before sending
\* the swap is what getAmountOut(amountIn, tokenA) returns on the reserves in
\* force just before the swap ran, and the wallet's tokenA balance has fallen
\* by exactly amountIn.
C14_ObservedOutput ==
  (prog = "bot" /\ AtStep("sleep"))
    => LET tx == txs[Len(txs)]
           q == getAmountOut(pre, tx.a1, TA)
       IN /\ tx.name = "swap" /\ tx.i = Program[ip].i /\ tx.status = "confirmed"
          /\ tx.a1 = SwapAmount * Unit
          /\ q.ok
          /\ balanceAfter - balanceBefore = q.ret
          /\ balanceOf[TA][Wallet] = pre.balanceOf[TA][Wallet] - tx.a1

\* Both balances of the third swap have been read, and the swap paid out less
\* than the second one did.
C14_Witness ==
  /\ prog = "bot" /\ AtStep("sleep") /\ Program[ip].i = 3
  /\ balanceAfter > balanceBefore
  /\ balanceAfter - balanceBefore < getAmountOut(Funded(LiquidityA * Unit, LiquidityB * Unit), SwapAmount * Unit, TA).ret
  /\ reserveA = (LiquidityA + 3 * SwapAmount) * Unit

\* The reasons for which swap reverts.
SwapFailures ==
  {"Amount must be positive", "Invalid token", "Not enough liquidity",
   "ERC20: transfer amount exceeds allowance",
   "ERC20: transfer amount exceeds balance"}

\* C15: a swap that fails (zero amount, a token that is neither tokenA nor
\* tokenB, an empty reserve, too small an allowance or balance) leaves the
\* reserves, every balance and every allowance as they were before the call,
\* so what earlier swaps did stays in place.
C15_FailedSwapChangesNothing ==
  [][(last'.op = "swap" /\ ~last'.ok)
       => /\ last'.err \in SwapFailures
          /\ reserveA' = reserveA
          /\ reserveB' = reserveB
          /\ balanceOf' = balanceOf
          /\ allowance' = allowance
          /\ totalSupply' = totalSupply
          /\ moved' = moved]_vars

\* A swap has failed for lack of allowance after an earlier swap of tokenA
\* paid out tokenB, which the wallet still holds.
C15_Witness ==
  /\ last.op = "swap" /\ ~last.ok
  /\ last.err = "ERC20: transfer amount exceeds allowance"
  /\ reserveA > 0 /\ reserveB > 0
  /\ balanceOf[TB][Pool] < moved[TB][Wallet][Pool]
  /\ reserveB = balanceOf[TB][Pool]

\* Each reserve equals the pool's balance of its token.
ReservesMatchBalances ==
  /\ reserveA = balanceOf[tokenA][Pool]
  /\ reserveB = balanceOf[tokenB][Pool]

\* C16: after any sequence of addLiquidity, swap, approve and token transfers
\* each reserve is at most the pool's balance of its token; and the reserves
\* equal the balances for as long as no tokens are transferred to the pool
\* directly: they are equal at first and every call other than a transfer
\* keeps them equal.
C16_ReserveConsistency ==
  /\ [](tokenA \in Tokens =>
          /\ reserveA <= balanceOf[tokenA][Pool]
          /\ reserveB <= balanceOf[tokenB][Pool])
  /\ (tokenA \in Tokens => ReservesMatchBalances)
  /\ [][(tokenA \in Tokens /\ ReservesMatchBalances /\ last'.op # "transfer")
          => ReservesMatchBalances']_vars

\* Tokens were sent to a pool that holds liquidity: its tokenA balance
\* exceeds the reserve.
C16_Witness ==
  /\ last.op = "transfer" /\ last.ok /\ last.token = TA
  /\ reserveA > 0 /\ reserveB > 0
  /\ reserveA < balanceOf[TA][Pool]
  /\ reserveB = balanceOf[TB][Pool]

\* C17: once both reserves are positive they stay positive.  A successful
\* swap on such a pool pays the caller strictly less than the reserve of the
\* token paid out, and no call brings a reserve to zero.
C17_ReservesStayPositive ==
  [][(reserveA > 0 /\ reserveB > 0)
       => /\ reserveA' > 0 /\ reserveB' > 0
          /\ (last'.op = "swap" /\ last'.ok)
               => LET out == IF last'.token = tokenA THEN tokenB ELSE tokenA
                      c == last'.caller
                  IN /\ balanceOf'[out][c] - balanceOf[out][c] < ReserveOut(last'.token)
                     /\ balanceOf'[out][c] >= balanceOf[out][c]]_vars

\* A swap of tokenB has paid out tokenA from a pool whose tokenA reserve was
\* 2, and both reserves are still positive.
C17_Witness ==
  /\ last.op = "swap" /\ last.ok /\ last.token = TB /\ last.a = MaxAmount
  /\ reserveA > 0 /\ reserveB > 0
  /\ reserveA < moved[TA][Wallet][Pool]
  /\ balanceOf[TA][Pool] = reserveA

\* The sum of all balances of token t.
RECURSIVE SumOver(_, _)
SumOver(f, S) ==
  IF S = {} THEN 0
  ELSE LET a == CHOOSE x \in S : TRUE IN f[a] + SumOver(f, S \ {a})

SumOfBalances(t) == SumOver(balanceOf[t], Accounts)

\* C18: for each token contract the balances add up to totalSupply after any
\* sequence of calls, totalSupply does not change once the contract is
\* deployed, and a transfer or transferFrom succeeds only for an amount within
\* the sender's balance.
C18_TokenConservation ==
  /\ [](\A t \in Tokens : SumOfBalances(t) = totalSupply[t])
  /\ [][\A t \in Tokens :
          totalSupply[t] # 0 => totalSupply'[t] = totalSupply[t]]_vars
  /\ [][(last'.op \in {"transfer", "transferFrom"} /\ last'.ok)
          => /\ last'.a <= balanceOf[last'.token][last'.from]
             /\ balanceOf'[last'.token][last'.from] >= 0]_vars

\* The other account, holding tokens it was sent, has transferred a positive
\* amount to itself.
C18_Witness ==
  /\ last.op = "transfer" /\ last.ok /\ last.a > 0
  /\ last.caller = Other /\ last.to = Other
  /\ balanceOf[TA][Other] > 0
  /\ balanceOf[TA][Wallet] < totalSupply[TA]

\* main() has reached its last line with all ten swaps confirmed.
AllSwapsDone ==
  /\ pc = "done"
  /\ exitCode = 0
  /\ failedAt = 0
  /\ Cardinality(Confirmed("swap")) = SwapCount

\* C19: with supplies 100000 and 10000, liquidity (50000, 500) and ten swaps
\* of 100, no transaction of main() reverts on contract logic (balances and
\* allowances always suffice); and with the credential present the run
\* eventually finishes with all ten swaps done, unless the compiler, the
\* endpoint or a confirmation failed.
C19_RunCompletes ==
  /\ [](prog = "bot" => \A k \in DOMAIN txs : txs[k].status # "reverted")
  /\ ((prog = "bot" /\ hasKey /\ ~faults) ~> AllSwapsDone)
  /\ ((prog = "bot" /\ hasKey) ~> (AllSwapsDone \/ failedAt # 0))

\* The run has finished on a ledger and a compiler that never failed, and the
\* pool holds the liquidity and the input of the ten swaps.
C19_Witness ==
  /\ prog = "bot" /\ ~faults /\ AllSwapsDone
  /\ reserveA = (LiquidityA + SwapCount * SwapAmount) * Unit
  /\ reserveB < LiquidityB * Unit
  /\ balanceOf[TA][Wallet] = (SupplyA - LiquidityA - SwapCount * SwapAmount) * Unit

\* What ownerOf(tokenId) gives on ledger s: the owner, or None when it fails.
OwnerSeen(s, tokenId) ==
  IF ownerOf(s, tokenId).ok THEN ownerOf(s, tokenId).ret ELSE None

\* C20: in MyNFT the k-th successful safeMint hands out id k (the ids are
\* 1..k in order, none twice) and totalSupply() is k; ownerOf(id) is the
\* address given to the mint of id when that address is not address(0),
\* later mints do not change it, and ownerOf fails for every id outside
\* 1..k; after the two mints of deploy() totalSupply() is 2.
C20_NFTIds ==
  /\ [](nextTokenId >= 1 =>
          /\ MyNFT_totalSupply(St).ok
          /\ (prog = "none" /\ nops = 0) => MyNFT_totalSupply(St).ret = 0
          /\ \A tokenId \in TokenIds :
               ownerOf(St, tokenId).ok
                 => (tokenId \in 1 .. MyNFT_totalSupply(St).ret
                       /\ ownerOf(St, tokenId).ret # Zero)
          /\ (last.op = "totalSupply") => (last.ok /\ last.ret = MyNFT_totalSupply(St).ret)
          /\ (last.op = "ownerOf")
               => /\ last.ok <=> OwnerSeen(St, last.a) # None
                  /\ last.ok => last.ret = OwnerSeen(St, last.a)
          /\ prog = "deploy"
               => MyNFT_totalSupply(St).ret = Cardinality(Confirmed("safeMint")))
  /\ [][(last'.op = "safeMint" /\ nops' # nops)
          => LET k == MyNFT_totalSupply(St).ret IN
             /\ last'.ok
             /\ last'.ret = k + 1
             /\ MyNFT_totalSupply(St').ret = k + 1
             /\ OwnerSeen(St', k + 1) = IF last'.to = Zero THEN None ELSE last'.to
             /\ \A tokenId \in TokenIds \ {k + 1} :
                  OwnerSeen(St', tokenId) = OwnerSeen(St, tokenId)]_vars

\* After three mints, the second of them to the other account, ownerOf(2)
\* has returned that account.
C20_Witness ==
  /\ last.op = "ownerOf" /\ last.ok /\ last.a = 2 /\ last.ret = Other
  /\ nextTokenId = 4
  /\ OwnerSeen(St, 1) = Wallet
  /\ OwnerSeen(St, 3) = None

=============================================================================
